---- MODULE Spec2Model ----
(***************************************************************************)
(* A model of the polyphonic synthesizer of src/synth.js and src/Voice.js. *)
(*                                                                         *)
(* Units.  Time is counted in ticks of 10 ms, the common measure of the    *)
(* four time constants of Voice.js (0.02 s, 0.01 s, 0.5 s, 0.01 s).        *)
(* Gains are counted in thousandths, so that 1.0 is AmpScale.  All times   *)
(* stored in the state are offsets from AudioContext.currentTime ("now" is *)
(* offset 0, a negative offset lies in the past); the code only ever uses  *)
(* currentTime plus a constant, so the absolute reading is not needed.     *)
(*                                                                         *)
(* Web Audio.  The host audio subsystem is modelled as far as the code     *)
(* uses it: an AudioParam is a timeline of events (setValueAtTime,         *)
(* linearRampToValueAtTime, cancelScheduledValues) together with its       *)
(* "current value" slot, which is what the .value getter returns.  The     *)
(* slot starts at the parameter's default (1 for GainNode.gain) and is     *)
(* rewritten from the timeline only when the audio clock renders, which is *)
(* what the Advance action does.  A scheduled source halts when the clock  *)
(* reaches its stop time and then queues its "ended" event.                *)
(*                                                                         *)
(* Connections.  disconnect() removes the outgoing connections of the node *)
(* it is called on: connected holds the nodes of a chain whose outgoing    *)
(* connections exist ("ampEnv" stands for ampEnv -> masterGain), and       *)
(* masterGain.connected for masterGain -> destination (synth.js:23).       *)
(***************************************************************************)
EXTENDS Integers, Sequences, FiniteSets, TLC

\* ------------------------------------------------------------ constants

\* Voice.js:21-24 and :94, in ticks of 10 ms; sustain in thousandths.
attack == 2
decay == 1
sustain == 500
release == 50
guard == 1

\* 1.0 in thousandths (Voice.js:10: "typically between 0.0 and 1.0").
AmpScale == 1000

\* Bound of the model: how many Voice objects, and how many sets of audio
\* nodes, are ever created.
MaxVoices == 2

\* The six audio nodes a Voice creates in start(), and the three of them that
\* are sources.
Nodes == {"osc", "osc2", "osc3", "osc2scale", "osc3scale", "ampEnv"}
Sources == {"osc", "osc2", "osc3"}

\* Keyboard keys that are pressed: two mapped keys and one unmapped key.
Keys == {"a", "h", "z"}

\* synth.js:66-84.  0 stands for undefined (no such property).
noteMap == [k \in Keys |-> CASE k = "a" -> 60 [] k = "h" -> 69 [] OTHER -> 0]

Notes == {noteMap[k] : k \in Keys} \ {0}

\* synth.js:31-33, 440 * 2^((midi - 69) / 12), in hundredths of a hertz and
\* rounded, tabulated for the notes of Notes.
mtof(midi) == CASE midi = 60 -> 26163 [] midi = 69 -> 44000 [] OTHER -> 0

\* Values Math.random() returns (synth.js:42): 0 <= x < 1, in thousandths.
Amps == {0, 800}

\* Arguments the constructor is called with when a client builds a Voice
\* itself: valid ones and the invalid ones of a negative frequency (-10 Hz)
\* and an amplitude of 1.5.
CtorArgs == {<<44000, 800>>, <<0 - 1000, 800>>, <<44000, 1500>>}

\* ------------------------------------------------------------ state

VARIABLES
    voices,        \* the Voice objects ever constructed, in order of creation
    chains,        \* the sets of audio nodes ever created by a start()
    activeVoices,  \* synth.js:13, note -> index into voices, 0 when absent
    masterGain,    \* synth.js:19-23, the output node every Voice is given
    err,           \* the exception the latest handler let escape, or "none"
    last           \* what the latest step did (observation only)

vars == <<voices, chains, activeVoices, masterGain, err, last>>

\* The objects reachable from the program as one value, as a handler finds
\* them when it is entered: no exception is in flight.
Heap ==
    [voices |-> voices, chains |-> chains, activeVoices |-> activeVoices,
     masterGain |-> masterGain, err |-> "none"]

\* ------------------------------------------------------------ AudioParam

Event(kind, value, time) == [kind |-> kind, value |-> value, time |-> time]

\* Insertion in time order, after the events of the same time.
InsertEvent(ev, e) ==
    LET n == Cardinality({i \in 1..Len(ev) : ev[i].time <= e.time})
    IN SubSeq(ev, 1, n) \o <<e>> \o SubSeq(ev, n + 1, Len(ev))

setValueAtTime(ev, value, time) == InsertEvent(ev, Event("set", value, time))

linearRampToValueAtTime(ev, value, time) == InsertEvent(ev, Event("ramp", value, time))

\* Removes every event scheduled at or after cancelTime.
cancelScheduledValues(ev, cancelTime) ==
    SelectSeq(ev, LAMBDA e : e.time < cancelTime)

\* The value the timeline gives the parameter at time t: the latest event at
\* or before t holds its value, unless the event after it is a ramp, which
\* interpolates linearly from that event to its own target.  dflt is the
\* value of a parameter no event has set yet.
EnvAt(ev, t, dflt) ==
    LET i == Cardinality({j \in 1..Len(ev) : ev[j].time <= t})
    IN IF i = 0 THEN dflt
       ELSE IF i < Len(ev) /\ ev[i + 1].kind = "ramp"
            THEN ev[i].value
                 + ((ev[i + 1].value - ev[i].value) * (t - ev[i].time))
                   \div (ev[i + 1].time - ev[i].time)
            ELSE ev[i].value

\* The timeline as seen from d ticks later.  Events that no longer bear on
\* the present or the future are dropped: only the latest event at or before
\* now and the events after it decide EnvAt(_, t, _) for t >= 0.  When no
\* event is left pending, the age of that latest event is immaterial as well
\* and is recorded as 1 tick.
Shift(ev, d) ==
    LET moved == [i \in 1..Len(ev) |-> [ev[i] EXCEPT !.time = @ - d]]
        i0 == Cardinality({j \in 1..Len(moved) : moved[j].time <= 0})
        kept == IF i0 = 0 THEN moved ELSE SubSeq(moved, i0, Len(moved))
    IN IF Len(kept) = 1 /\ kept[1].time < 0 - 1
       THEN <<[kept[1] EXCEPT !.time = 0 - 1]>>
       ELSE kept

\* ------------------------------------------------------------ Voice

\* new Voice(ctx, freq, maxAmp, out): no audio node exists yet.  chain is the
\* index in chains of the nodes the six handles refer to, 0 while they are
\* undefined or null.  disposeRuns counts the invocations of dispose().
Voice(freq, maxAmp) ==
    [frequency |-> freq,
     maxAmp |-> maxAmp,
     handle |-> [n \in Nodes |-> "undefined"],
     chain |-> 0,
     disposeRuns |-> 0]

\* start() whose Decay ramp ends at the sustain fraction itself.
startFlatSustain(h, v) ==
    LET vo == h.voices[v]
        c == Len(h.chains) + 1
        ev0 == setValueAtTime(<<>>, 0, 0)
        ev1 == linearRampToValueAtTime(ev0, vo.maxAmp, attack)
        ev2 == linearRampToValueAtTime(ev1, sustain,
                                       attack + decay)
        nodes ==
            [owner |-> v,
             frequency |-> [s \in Sources |->
                              CASE s = "osc" -> vo.frequency
                                [] s = "osc2" -> vo.frequency * 2
                                [] s = "osc3" -> vo.frequency * 3],
             type |-> [s \in Sources |-> IF s = "osc" THEN "sine" ELSE "sawtooth"],
             scale |-> 500,
             connected |-> Nodes,
             playing |-> Sources,
             stopAt |-> [s \in Sources |-> 0 - 1],
             events |-> ev2,
             value |-> AmpScale,
             ended |-> FALSE]
    IN [h EXCEPT !.voices[v].handle = [n \in Nodes |-> "node"],
                 !.voices[v].chain = c,
                 !.chains = Append(@, nodes)]

\* Voice.start() on voices[v] of heap h.
start(h, v) ==
    LET vo == h.voices[v]
        c == Len(h.chains) + 1
        ev0 == setValueAtTime(<<>>, 0, 0)
        ev1 == linearRampToValueAtTime(ev0, vo.maxAmp, attack)
        ev2 == linearRampToValueAtTime(ev1, (sustain * vo.maxAmp) \div AmpScale,
                                       attack + decay)
        nodes ==
            [owner |-> v,
             frequency |-> [s \in Sources |->
                              CASE s = "osc" -> vo.frequency
                                [] s = "osc2" -> vo.frequency * 2
                                [] s = "osc3" -> vo.frequency * 3],
             type |-> [s \in Sources |-> IF s = "osc" THEN "sine" ELSE "sawtooth"],
             scale |-> 500,
             connected |-> Nodes,
             playing |-> Sources,
             stopAt |-> [s \in Sources |-> 0 - 1],
             events |-> ev2,
             value |-> AmpScale,
             ended |-> FALSE]
    IN [h EXCEPT !.voices[v].handle = [n \in Nodes |-> "node"],
                 !.voices[v].chain = c,
                 !.chains = Append(@, nodes)]

\* stop() without the guard interval: the sources halt at now + release.
stopNoGuard(h, v) ==
    LET vo == h.voices[v]
        c == vo.chain
        ch == h.chains[c]
        ev0 == cancelScheduledValues(ch.events, 0)
        ev1 == setValueAtTime(ev0, ch.value, 0)
        ev2 == linearRampToValueAtTime(ev1, 0, release)
    IN IF vo.handle["ampEnv"] # "node"
       THEN [h EXCEPT !.err = "TypeError"]
       ELSE [h EXCEPT !.chains[c].events = Shift(ev2, 0),
                      !.chains[c].stopAt =
                          [s \in Sources |-> IF s \in ch.playing
                                             THEN release
                                             ELSE ch.stopAt[s]]]

\* dispose() that forgets the second harmonic's attenuation stage.
disposeForgetful(h, v) ==
    LET vo == h.voices[v]
        c == vo.chain
    IN IF vo.handle["osc"] # "node"
       THEN [h EXCEPT !.voices[v].disposeRuns = @ + 1, !.err = "TypeError"]
       ELSE [h EXCEPT !.chains[c].connected = {"osc3scale"},
                      !.voices[v].handle =
                          [n \in Nodes |-> IF n = "osc3scale" THEN "node" ELSE "null"],
                      !.voices[v].disposeRuns = @ + 1]

\* dispose() that deletes the handles instead of setting them to null.
disposeDeleting(h, v) ==
    LET vo == h.voices[v]
        c == vo.chain
    IN IF vo.handle["osc"] # "node"
       THEN [h EXCEPT !.voices[v].disposeRuns = @ + 1, !.err = "TypeError"]
       ELSE [h EXCEPT !.chains[c].connected = {},
                      !.voices[v].handle = [n \in Nodes |-> "undefined"],
                      !.voices[v].chain = 0,
                      !.voices[v].disposeRuns = @ + 1]

\* stop() that lets the two harmonics run one guard interval longer.
stopStaggered(h, v) ==
    LET vo == h.voices[v]
        c == vo.chain
        ch == h.chains[c]
        ev0 == cancelScheduledValues(ch.events, 0)
        ev1 == setValueAtTime(ev0, ch.value, 0)
        ev2 == linearRampToValueAtTime(ev1, 0, release)
    IN IF vo.handle["ampEnv"] # "node"
       THEN [h EXCEPT !.err = "TypeError"]
       ELSE [h EXCEPT !.chains[c].events = Shift(ev2, 0),
                      !.chains[c].stopAt =
                          [s \in Sources |-> IF s \in ch.playing
                                             THEN IF s = "osc"
                                                  THEN release + guard
                                                  ELSE release + guard + guard
                                             ELSE ch.stopAt[s]]]

\* stop() that schedules the pin and the release ramp without cancelling.
stopNoCancel(h, v) ==
    LET vo == h.voices[v]
        c == vo.chain
        ch == h.chains[c]
        ev1 == setValueAtTime(ch.events, ch.value, 0)
        ev2 == linearRampToValueAtTime(ev1, 0, release)
    IN IF vo.handle["ampEnv"] # "node"
       THEN [h EXCEPT !.err = "TypeError"]
       ELSE [h EXCEPT !.chains[c].events = Shift(ev2, 0),
                      !.chains[c].stopAt =
                          [s \in Sources |-> IF s \in ch.playing
                                             THEN release + guard
                                             ELSE ch.stopAt[s]]]

\* stop() that schedules the halt of the two harmonics only.
stopForgettingFundamental(h, v) ==
    LET vo == h.voices[v]
        c == vo.chain
        ch == h.chains[c]
        ev0 == cancelScheduledValues(ch.events, 0)
        ev1 == setValueAtTime(ev0, ch.value, 0)
        ev2 == linearRampToValueAtTime(ev1, 0, release)
    IN IF vo.handle["ampEnv"] # "node"
       THEN [h EXCEPT !.err = "TypeError"]
       ELSE [h EXCEPT !.chains[c].events = Shift(ev2, 0),
                      !.chains[c].stopAt =
                          [s \in Sources |-> IF s \in ch.playing \ {"osc"}
                                             THEN release + guard
                                             ELSE ch.stopAt[s]]]

\* Voice.stop() on voices[v] of heap h.  this.ampEnv.gain on a handle that
\* is undefined or null throws a TypeError before anything is changed.
stop(h, v) ==
    LET vo == h.voices[v]
        c == vo.chain
        ch == h.chains[c]
        ev0 == cancelScheduledValues(ch.events, 0)
        ev1 == setValueAtTime(ev0, ch.value, 0)
        ev2 == linearRampToValueAtTime(ev1, 0, release)
    IN IF vo.handle["ampEnv"] # "node"
       THEN [h EXCEPT !.err = "TypeError"]
       ELSE [h EXCEPT !.chains[c].events = Shift(ev2, 0),
                      !.chains[c].stopAt =
                          [s \in Sources |-> IF s \in ch.playing
                                             THEN release + guard
                                             ELSE ch.stopAt[s]]]

\* dispose() that also disconnects the shared output node.
disposeDisconnectingOutput(h, v) ==
    LET vo == h.voices[v]
        c == vo.chain
    IN IF vo.handle["osc"] # "node"
       THEN [h EXCEPT !.voices[v].disposeRuns = @ + 1, !.err = "TypeError"]
       ELSE [h EXCEPT !.chains[c].connected = {},
                      !.voices[v].handle = [n \in Nodes |-> "null"],
                      !.voices[v].chain = 0,
                      !.voices[v].disposeRuns = @ + 1,
                      !.masterGain.connected = FALSE]

\* dispose() that also removes the registry entry of the Voice's note.
disposeUnregistering(h, v) ==
    LET vo == h.voices[v]
        c == vo.chain
    IN IF vo.handle["osc"] # "node"
       THEN [h EXCEPT !.voices[v].disposeRuns = @ + 1, !.err = "TypeError"]
       ELSE [h EXCEPT !.chains[c].connected = {},
                      !.voices[v].handle = [n \in Nodes |-> "null"],
                      !.voices[v].chain = 0,
                      !.voices[v].disposeRuns = @ + 1,
                      !.activeVoices =
                          [n \in DOMAIN @ |-> IF mtof(n) = vo.frequency THEN 0 ELSE @[n]]]

\* Voice.dispose() on voices[v] of heap h.  this.osc.disconnect() on a handle
\* that is undefined or null throws a TypeError before anything is changed.
dispose(h, v) ==
    LET vo == h.voices[v]
        c == vo.chain
    IN IF vo.handle["osc"] # "node"
       THEN [h EXCEPT !.voices[v].disposeRuns = @ + 1, !.err = "TypeError"]
       ELSE [h EXCEPT !.chains[c].connected = {},
                      !.voices[v].handle = [n \in Nodes |-> "null"],
                      !.voices[v].chain = 0,
                      !.voices[v].disposeRuns = @ + 1]

\* The lifecycle phase of a Voice, read off its fields.
PhaseOf(h, v) ==
    LET vo == h.voices[v]
    IN CASE vo.handle["osc"] = "undefined" -> "Idle"
         [] vo.handle["osc"] = "null" -> "Disposed"
         [] OTHER -> IF h.chains[vo.chain].stopAt["osc"] >= 0
                     THEN "Releasing" ELSE "Sounding"

Phase(v) == PhaseOf(Heap, v)

\* ------------------------------------------------------------ synth.js

\* startNote() without the test for an existing entry.
startNoteUnguarded(h, note, amp) ==
    LET v == Len(h.voices) + 1
        made == [h EXCEPT !.voices = Append(@, Voice(mtof(note), amp)),
                          !.activeVoices[note] = v]
    IN start(made, v)

\* startNote() that stores the new Voice and does not start it.
startNoteUnstarted(h, note, amp) ==
    IF h.activeVoices[note] = 0
    THEN [h EXCEPT !.voices = Append(@, Voice(mtof(note), amp)),
                   !.activeVoices[note] = Len(h.voices) + 1]
    ELSE h

\* startNote(note); amp is the value Math.random() returns.
startNote(h, note, amp) ==
    IF h.activeVoices[note] = 0
    THEN LET v == Len(h.voices) + 1
             made == [h EXCEPT !.voices = Append(@, Voice(mtof(note), amp)),
                               !.activeVoices[note] = v]
         IN start(made, v)
    ELSE h

\* stopNote() that stops the Voice and keeps its entry.
stopNoteKeeping(h, note) ==
    IF h.activeVoices[note] # 0 THEN stop(h, h.activeVoices[note]) ELSE h

\* stopNote(note).  An exception thrown by stop() leaves the function before
\* the delete.
stopNote(h, note) ==
    IF h.activeVoices[note] # 0
    THEN LET stopped == stop(h, h.activeVoices[note])
         IN IF stopped.err # "none"
            THEN stopped
            ELSE [stopped EXCEPT !.activeVoices[note] = 0]
    ELSE h

\* The keydown listener.
keydown(h, key, amp) ==
    IF noteMap[key] # 0 THEN startNote(h, noteMap[key], amp) ELSE h

\* The keyup listener.
keyup(h, key) ==
    IF noteMap[key] # 0 THEN stopNote(h, noteMap[key]) ELSE h

\* ------------------------------------------------------------ audio clock

\* The instants still ahead at which something is scheduled: envelope events
\* and halts of sources that are playing.
Pending(h) ==
    {t \in UNION {{h.chains[c].events[i].time : i \in 1..Len(h.chains[c].events)}
                  \cup {h.chains[c].stopAt[s] : s \in h.chains[c].playing}
                  : c \in 1..Len(h.chains)} : t > 0}

\* The earliest pending instant.
NextDue(h) == CHOOSE x \in Pending(h) : \A y \in Pending(h) : x <= y

\* The strides the clock may take: one tick while the next pending instant is
\* at most attack + decay ticks ahead (or nothing is pending), and the whole
\* way to the next pending instant.
Strides(h) ==
    IF Pending(h) = {} THEN {1}
    ELSE IF NextDue(h) > attack + decay THEN {NextDue(h)}
    ELSE {1, NextDue(h)}

\* The audio clock moves on by d ticks, d no further than the next pending
\* instant.  Sources whose stop time is reached halt, and the fundamental,
\* the one source with an onended handler (Voice.js:37), queues its "ended"
\* event.  Every gain parameter's current value is rewritten from its
\* timeline.
advance(h, d) ==
    [h EXCEPT !.chains =
        [c \in 1..Len(h.chains) |->
            LET ch == h.chains[c]
                at == [s \in Sources |-> IF s \in ch.playing /\ ch.stopAt[s] > 0
                                         THEN ch.stopAt[s] - d ELSE ch.stopAt[s]]
                halted == {s \in ch.playing : at[s] = 0}
                ev == Shift(ch.events, d)
            IN [ch EXCEPT !.stopAt = at,
                          !.playing = @ \ halted,
                          !.ended = @ \/ "osc" \in halted,
                          !.events = ev,
                          !.value = EnvAt(ev, 0, @)]]]

\* Delivery of "ended" that disposes of the Voice registered for the note of
\* the source, if there is one, instead of the Voice that created it.
onendedOfNote(h, c) ==
    LET reg == {n \in Notes : /\ mtof(n) = h.chains[c].frequency["osc"]
                              /\ h.activeVoices[n] # 0}
    IN dispose([h EXCEPT !.chains[c].ended = FALSE],
               IF reg = {} THEN h.chains[c].owner
               ELSE h.activeVoices[CHOOSE n \in reg : TRUE])

\* The "ended" event of the fundamental of chains[c] is delivered: the
\* handler bound in start() runs dispose() of the Voice that created it.
onended(h, c) ==
    dispose([h EXCEPT !.chains[c].ended = FALSE], h.chains[c].owner)

\* ------------------------------------------------------------ actions

Set(h) ==
    /\ voices' = h.voices
    /\ chains' = h.chains
    /\ activeVoices' = h.activeVoices
    /\ masterGain' = h.masterGain
    /\ err' = h.err

Did(op, key, v, res) == [op |-> op, key |-> key, v |-> v, res |-> res]

Init ==
    /\ voices = <<>>
    /\ chains = <<>>
    /\ activeVoices = [n \in Notes |-> 0]
    /\ masterGain = [gain |-> 125, connected |-> TRUE]
    /\ err = "none"
    /\ last = Did("init", "", 0, "")

\* A key goes down (or repeats while held).
KeyDown ==
    \E k \in Keys, amp \in Amps :
        /\ Len(keydown(Heap, k, amp).voices) <= MaxVoices
        /\ Set(keydown(Heap, k, amp))
        /\ last' = Did("keydown", k, 0,
                       CASE noteMap[k] = 0 -> "unmapped"
                         [] activeVoices[noteMap[k]] # 0 -> "present"
                         [] OTHER -> "absent")

\* A key goes up.
KeyUp ==
    \E k \in Keys :
        /\ Set(keyup(Heap, k))
        /\ last' = Did("keyup", k, 0,
                       CASE noteMap[k] = 0 -> "unmapped"
                         [] activeVoices[noteMap[k]] # 0 -> "present"
                         [] OTHER -> "absent")

\* The audio clock advances.  It is read tick by tick while an envelope
\* breakpoint or a halt is at most attack + decay ticks ahead, and otherwise
\* moves straight to the next pending instant: in between, nothing that a
\* handler reads changes except the position on a release ramp, and EnvAt
\* gives the envelope at every instant of it.  A queued "ended" event is
\* delivered before the clock moves again.
Advance ==
    /\ \A c \in 1..Len(chains) : ~chains[c].ended
    /\ \E d \in Strides(Heap) :
        /\ Set(advance(Heap, d))
        /\ last' = Did("advance", "", 0, "")

\* The "ended" event of a fundamental is dispatched.
OnEnded ==
    \E c \in 1..Len(chains) :
        /\ chains[c].ended
        /\ Set(onended(Heap, c))
        /\ last' = Did("ended", "", chains[c].owner, "")

Next == KeyDown \/ KeyUp \/ Advance \/ OnEnded

\* The program: key events, the audio clock and the audio callbacks.
Spec == Init /\ [][Next]_vars

\* The audio clock can move: no "ended" event awaits delivery and some stride
\* changes the state.  This is ENABLED <<Advance>>_vars written as a state
\* predicate; ClockRunsIsEnabled states the equivalence.
ClockRuns ==
    /\ \A c \in 1..Len(chains) : ~chains[c].ended
    /\ \E d \in Strides(Heap) : \E h \in {advance(Heap, d)} :
          <<h.voices, h.chains, h.activeVoices, h.masterGain, h.err,
            Did("advance", "", 0, "")>> # vars

ClockRunsIsEnabled == ClockRuns <=> ENABLED <<Advance>>_vars

\* The program with a running audio clock and an event loop that delivers
\* every queued "ended" event: weak fairness of Advance, WF_vars(Advance)
\* written out with ClockRuns for its enabling condition, and weak fairness
\* of OnEnded.
FairSpec ==
    /\ Spec
    /\ ([]<>~ClockRuns \/ []<><<Advance>>_vars)
    /\ WF_vars(OnEnded)

\* A client that uses the Voice class directly, calling its methods in any
\* order.
New ==
    \E args \in CtorArgs :
        /\ Len(voices) < MaxVoices
        /\ Set([Heap EXCEPT !.voices = Append(@, Voice(args[1], args[2]))])
        /\ last' = Did("new", "", Len(voices) + 1, "")

CallStart ==
    \E v \in 1..Len(voices) :
        /\ Len(start(Heap, v).chains) <= MaxVoices
        /\ Set(start(Heap, v))
        /\ last' = Did("start", "", v, Phase(v))

CallStop ==
    \E v \in 1..Len(voices) :
        /\ Set(stop(Heap, v))
        /\ last' = Did("stop", "", v, Phase(v))

VoiceNext == New \/ CallStart \/ CallStop \/ Advance \/ OnEnded

VoiceSpec == Init /\ [][VoiceNext]_vars

\* ------------------------------------------------------------ properties

HeapNext ==
    [voices |-> voices', chains |-> chains', activeVoices |-> activeVoices',
     masterGain |-> masterGain', err |-> "none"]

VoiceIds == 1..Len(voices)
ChainIds == 1..Len(chains)

\* The Voices of a note that are sounding: started and not stopped.
SoundingOf(n) ==
    {v \in VoiceIds : voices[v].frequency = mtof(n) /\ Phase(v) = "Sounding"}

\* The time span over which an envelope is examined: from now to the halt
\* of a Voice stopped now.
Horizon == release + guard

\* C1: after any sequence of key events, clock ticks and halt callbacks, each
\* note has at most one sounding Voice, which is the one its registry entry
\* names, and a startNote for a note that has an entry is a no-op: it
\* creates no Voice, no audio node, and leaves every entry as it was.
C1_OneVoicePerNote ==
    /\ [](\A n \in Notes :
            /\ Cardinality(SoundingOf(n)) <= 1
            /\ SoundingOf(n) \subseteq {activeVoices[n]})
    /\ [][(last'.op = "keydown" /\ last'.res = "present")
            => UNCHANGED <<voices, chains, activeVoices>>]_vars

\* A second keydown of a held note has been handled, and the note has its
\* one sounding Voice.
C1_Witness ==
    /\ last.op = "keydown"
    /\ last.res = "present"
    /\ Cardinality(SoundingOf(noteMap[last.key])) = 1
    /\ Len(voices) = 1

\* C2: for every Voice, dispose() runs at most once; it has not run as long
\* as the halt time (stop time + release + guard) is not reached; and once
\* that time is reached and the "ended" event delivered, it has run exactly
\* once, all six nodes are disconnected, no source plays and the six handles
\* are null.
C2_DisposedExactlyOnce ==
    /\ \A v \in VoiceIds : voices[v].disposeRuns <= 1
    /\ \A c \in ChainIds :
        LET ch == chains[c]
            vo == voices[ch.owner]
        IN IF ch.stopAt["osc"] = 0 /\ ~ch.ended
           THEN /\ vo.disposeRuns = 1
                /\ ch.connected = {}
                /\ ch.playing = {}
                /\ \A n \in Nodes : vo.handle[n] = "null"
           ELSE /\ vo.disposeRuns = 0
                /\ ch.connected = Nodes
                /\ \A n \in Nodes : vo.handle[n] = "node"

\* A stopped Voice whose halt time has passed and that has been disposed.
C2_Witness ==
    \E c \in ChainIds :
        /\ chains[c].stopAt["osc"] = 0
        /\ ~chains[c].ended
        /\ voices[chains[c].owner].disposeRuns = 1
        /\ chains[c].connected = {}

\* C3: a stopNote for a note that has an entry calls stop() of the stored
\* Voice (the release ramp and the halt are scheduled) and removes the
\* entry in the same step, while the Voice is Releasing and not disposed;
\* a stopNote for a note without an entry, or a keyup of an unmapped key,
\* changes nothing.
C3_NoteOffRemovesEntry ==
    [][/\ (last'.op = "keyup" /\ last'.res = "present") =>
            LET n == noteMap[last'.key]
                v == activeVoices[n]
            IN /\ activeVoices' = [activeVoices EXCEPT ![n] = 0]
               /\ PhaseOf(HeapNext, v) = "Releasing"
               /\ voices'[v].disposeRuns = 0
               /\ chains'[voices[v].chain].stopAt["osc"] = release + guard
               /\ chains'[voices[v].chain].connected = Nodes
       /\ (last'.op = "keyup" /\ last'.res # "present") =>
            UNCHANGED <<voices, chains, activeVoices, err>>]_vars

\* stopNote has just removed the entry of a note whose Voice is Releasing.
C3_Witness ==
    /\ last.op = "keyup"
    /\ last.res = "present"
    /\ activeVoices[noteMap[last.key]] = 0
    /\ \E v \in VoiceIds :
        /\ voices[v].frequency = mtof(noteMap[last.key])
        /\ Phase(v) = "Releasing"
        /\ voices[v].disposeRuns = 0

\* C4: every entry of the registry names a Voice that has been started and
\* has not been disposed.
C4_RegistryHoldsLiveVoices ==
    \A n \in Notes :
        activeVoices[n] # 0 =>
            /\ activeVoices[n] \in VoiceIds
            /\ Phase(activeVoices[n]) \in {"Sounding", "Releasing"}

\* A note has an entry while an earlier Voice of the same note is Disposed.
C4_Witness ==
    \E n \in Notes, v \in VoiceIds :
        /\ activeVoices[n] # 0
        /\ activeVoices[n] # v
        /\ voices[v].frequency = mtof(n)
        /\ Phase(v) = "Disposed"

C6_SilentBeforeHalt ==
    \A c \in ChainIds :
        LET ch == chains[c]
            T == ch.stopAt["osc"]
        IN /\ T > 0 => \E t \in 0..(T - 1) :
                          \A u \in t..T : EnvAt(ch.events, u, ch.value) = 0
           /\ T = 0 => ch.value = 0 /\ EnvAt(ch.events, 0, ch.value) = 0

\* A Voice of non-zero peak amplitude, stopped while it sounded, has
\* reached its halt, its gain at 0.
C6_Witness ==
    \E c \in ChainIds :
        /\ chains[c].ended
        /\ chains[c].value = 0
        /\ voices[chains[c].owner].maxAmp > 0

\* C7: at every instant from now on, the envelope of every Voice lies
\* between 0 and the Voice's peak amplitude, whatever the peak amplitude in
\* [0, 1) and whenever stop() was called.
C7_EnvelopeWithinPeak ==
    \A c \in ChainIds :
        \A t \in 0..Horizon :
            /\ 0 <= EnvAt(chains[c].events, t, chains[c].value)
            /\ EnvAt(chains[c].events, t, chains[c].value)
                   <= voices[chains[c].owner].maxAmp

\* The envelope has no set event that changes the value the timeline has
\* reached at its time.
Continuous(ev) ==
    \A i \in 2..Len(ev) :
        ev[i].kind = "set" =>
            ev[i].value = EnvAt(SubSeq(ev, 1, i - 1), ev[i].time, ev[i].value)

\* C8: the envelope has no jump at a scheduled-event boundary, and stop()
\* leaves the envelope at the instant of the call at the value the timeline
\* gave it just before: the release ramp starts from the value the envelope
\* holds at that instant.
C8_EnvelopeContinuous ==
    /\ [](\A c \in ChainIds : Continuous(chains[c].events))
    /\ [][(last'.op = "keyup" /\ last'.res = "present") =>
            LET c == voices[activeVoices[noteMap[last'.key]]].chain
            IN EnvAt(chains'[c].events, 0, chains'[c].value)
                   = EnvAt(chains[c].events, 0, chains[c].value)]_vars

\* C9: stop() on a Voice that is not Sounding (not started, already stopped
\* or disposed) lets no exception escape and leaves every Voice and every
\* audio node as it was.
C9_StopOutOfTurnIsHarmless ==
    [][(last'.op = "stop" /\ last'.res # "Sounding") =>
            /\ err' = "none"
            /\ UNCHANGED <<voices, chains>>]_vars

\* C10: no Voice exists whose frequency is not positive or whose peak
\* amplitude lies outside [0, 1]: the constructor rejects such arguments.
C10_ConstructorValidates ==
    \A v \in VoiceIds :
        /\ voices[v].frequency > 0
        /\ 0 <= voices[v].maxAmp
        /\ voices[v].maxAmp <= AmpScale

\* C11: start() on a Voice that is not Idle is rejected: an error is raised,
\* no second set of audio nodes is created and the handles of the Voice are
\* not replaced.
C11_SecondStartRejected ==
    [][(last'.op = "start" /\ last'.res # "Idle") =>
            /\ err' # "none"
            /\ UNCHANGED <<voices, chains>>]_vars

\* C12: the registry is changed only by a keydown that inserts the entry of
\* a note that has none and by a keyup that removes the entry of a note that
\* has one; the clock and the "ended" callback with its dispose() leave the
\* registry as it is.
C12_RegistryChangedByKeysOnly ==
    [][/\ activeVoices' # activeVoices =>
            \E n \in Notes :
                /\ \A m \in Notes \ {n} : activeVoices'[m] = activeVoices[m]
                /\ \/ /\ last'.op = "keydown"
                      /\ activeVoices[n] = 0
                      /\ activeVoices'[n] = Len(voices')
                   \/ /\ last'.op = "keyup"
                      /\ activeVoices[n] # 0
                      /\ activeVoices'[n] = 0
       /\ last'.op \in {"ended", "advance"} => activeVoices' = activeVoices]_vars

\* dispose() has just run for a Voice while the note of that Voice has an
\* entry again, which names a later Voice.
C12_Witness ==
    /\ last.op = "ended"
    /\ Phase(last.v) = "Disposed"
    /\ \E n \in Notes :
        /\ mtof(n) = voices[last.v].frequency
        /\ activeVoices[n] \in VoiceIds \ {last.v}

\* The note a Voice was created for by startNote.
NoteOf(v) == CHOOSE n \in Notes : mtof(n) = voices[v].frequency

\* C13: in every state each Voice that is started and not disposed either is
\* Sounding and is the registry entry of its note, or is Releasing with the
\* halt of its fundamental scheduled and still ahead (or its "ended" event
\* queued).  A Releasing Voice stays Releasing until it is Disposed, and with
\* a running clock there is, again and again, a moment at which no Voice is
\* Releasing: every Voice that was released is eventually Disposed.
C13_NoVoiceLeaks ==
    /\ [](\A v \in VoiceIds :
            \/ /\ Phase(v) = "Sounding"
               /\ activeVoices[NoteOf(v)] = v
            \/ /\ Phase(v) = "Releasing"
               /\ \/ /\ "osc" \in chains[voices[v].chain].playing
                     /\ chains[voices[v].chain].stopAt["osc"] > 0
                  \/ chains[voices[v].chain].ended
            \/ Phase(v) = "Disposed")
    /\ [][\A v \in VoiceIds :
            Phase(v) = "Releasing" => (Phase(v))' \in {"Releasing", "Disposed"}]_vars
    /\ []<>(\A v \in VoiceIds : Phase(v) # "Releasing")

\* All the Voices the bound allows have been created, over both notes and
\* with a note struck twice or both notes overlapping, and all are Disposed.
C13_Witness ==
    /\ Len(voices) = MaxVoices
    /\ \A v \in VoiceIds : Phase(v) = "Disposed" /\ voices[v].disposeRuns = 1

\* The events of timeline ev that are not in the past.
PendingEvents(ev) == SelectSeq(ev, LAMBDA e : e.time >= 0)

\* C14: right after stop() the only envelope events of the Voice that are
\* not in the past are the pin at the current time and the ramp to 0 at
\* current time + release, and the envelope they give never rises again: no
\* Attack or Decay event of start() is left to take effect.
C14_CancelBeforeReschedule ==
    [][(last'.op = "keyup" /\ last'.res = "present") =>
            LET c == voices[activeVoices[noteMap[last'.key]]].chain
                ev == chains'[c].events
                pend == PendingEvents(ev)
            IN /\ Len(pend) = 2
               /\ pend[1].kind = "set" /\ pend[1].time = 0
               /\ pend[2] = Event("ramp", 0, release)
               /\ \A t \in 0..Horizon :
                    EnvAt(ev, t + 1, chains'[c].value) <= EnvAt(ev, t, chains'[c].value)
               /\ EnvAt(ev, release, chains'[c].value) = 0]_vars

\* A note is released at the very peak of its Attack, with the Decay ramp of
\* start() still ahead: the pin holds the peak amplitude.
C14_Witness ==
    /\ last.op = "keyup" /\ last.res = "present"
    /\ \E c \in ChainIds :
        /\ chains[c].stopAt["osc"] = release + guard
        /\ voices[chains[c].owner].maxAmp > 0
        /\ chains[c].events[1] = Event("set", voices[chains[c].owner].maxAmp, 0)

\* The ADSR curve of a Voice of peak amplitude peak that is never stopped,
\* t ticks after its start (Voice.js:21-23, 71-75).
Ideal(peak, t) ==
    LET hold == (sustain * peak) \div AmpScale
    IN IF t <= attack THEN (peak * t) \div attack
       ELSE IF t < attack + decay
            THEN peak + ((hold - peak) * (t - attack)) \div decay
            ELSE hold

\* The envelope of chain record ch as scheduled, t ticks from now.
EnvelopeOf(ch, t) == EnvAt(ch.events, t, ch.value)

\* The envelope of chains[c].
Envelope(c, t) == EnvelopeOf(chains[c], t)

\* C15: a Voice that is started and not stopped follows the ADSR curve: its
\* envelope is 0 at start, peak at start + attack, sustain x peak at
\* start + attack + decay and from then on.  start() leaves the envelope at
\* age 0 of the curve; in every state the envelope of a Sounding Voice is the
\* curve from some age on; the clock moves every Sounding Voice along its
\* envelope, the gain follows it, and no other step changes it.
C15_EnvelopeShape ==
    /\ [](\A c \in ChainIds :
            Phase(chains[c].owner) = "Sounding" =>
                \E a \in 0..(attack + decay) : \A t \in 0..Horizon :
                    Envelope(c, t) = Ideal(voices[chains[c].owner].maxAmp, a + t))
    /\ [][(last'.op = "keydown" /\ last'.res = "absent") =>
            \A t \in 0..Horizon :
                EnvelopeOf(chains'[Len(chains')], t)
                    = Ideal(voices'[Len(voices')].maxAmp, t)]_vars
    /\ [][\E d \in 1..Horizon : \A c \in ChainIds :
            (Phase(chains[c].owner) = "Sounding"
                /\ (Phase(chains[c].owner))' = "Sounding") =>
                IF last'.op = "advance"
                THEN /\ \A t \in 0..Horizon :
                            EnvelopeOf(chains'[c], t) = Envelope(c, t + d)
                     /\ chains'[c].value = Envelope(c, d)
                ELSE chains'[c].events = chains[c].events]_vars

\* A Voice of non-zero peak that is held has reached its sustain level, below
\* the peak, and holds it.
C15_Witness ==
    \E c \in ChainIds :
        /\ Phase(chains[c].owner) = "Sounding"
        /\ voices[chains[c].owner].maxAmp > 0
        /\ chains[c].value = (sustain * voices[chains[c].owner].maxAmp) \div AmpScale
        /\ \A t \in 0..Horizon : Envelope(c, t) = chains[c].value
        /\ last.op = "advance"

\* C16: start(), stop() and dispose() of one Voice leave every other Voice
\* as it is (its handles and phase, and the sources, envelope schedule and
\* connections of its nodes), and none of them changes the shared output
\* node, which stays connected.
C16_VoicesAreDisjoint ==
    [][last'.op \in {"keydown", "keyup", "ended"} =>
            LET acted ==
                    CASE last'.op = "ended" -> last'.v
                      [] last'.op = "keyup" /\ last'.res = "present" ->
                            activeVoices[noteMap[last'.key]]
                      [] last'.op = "keydown" /\ last'.res = "absent" ->
                            Len(voices) + 1
                      [] OTHER -> 0
            IN /\ \A v \in VoiceIds \ {acted} : voices'[v] = voices[v]
               /\ \A c \in ChainIds :
                    chains[c].owner # acted => chains'[c] = chains[c]
               /\ masterGain' = masterGain
               /\ masterGain'.connected]_vars

\* A Voice has just been disposed of while another Voice is sounding, all
\* its nodes connected, and the output node is connected.
C16_Witness ==
    /\ last.op = "ended"
    /\ Phase(last.v) = "Disposed"
    /\ \E v \in VoiceIds \ {last.v} :
        /\ Phase(v) = "Sounding"
        /\ chains[voices[v].chain].connected = Nodes
    /\ masterGain.connected

\* C17: stop() schedules the three sources of a Voice to halt at one and the
\* same time, release + guard after the call, so in every state the three
\* have the same halt time; dispose() runs only on the delivery of the
\* "ended" event of a fundamental that has halted, once per delivery, and at
\* that moment none of the three sources of the Voice is still running; the
\* steps on which sources halt, harmonics included, run no dispose().
C17_SourcesHaltTogether ==
    /\ [](\A c \in ChainIds :
            /\ \A s \in Sources : chains[c].stopAt[s] = chains[c].stopAt["osc"]
            /\ chains[c].ended => chains[c].playing = {})
    /\ [][(last'.op = "keyup" /\ last'.res = "present") =>
            \A s \in Sources :
                chains'[voices[activeVoices[noteMap[last'.key]]].chain].stopAt[s]
                    = release + guard]_vars
    /\ [][\A v \in VoiceIds :
            voices'[v].disposeRuns # voices[v].disposeRuns =>
                /\ last'.op = "ended"
                /\ last'.v = v
                /\ voices'[v].disposeRuns = voices[v].disposeRuns + 1
                /\ chains[voices[v].chain].ended
                /\ chains[voices[v].chain].playing = {}]_vars
    /\ [][last'.op = "advance" =>
            \A v \in VoiceIds : voices'[v] = voices[v]]_vars

\* The clock has just reached the halt time of a released Voice: its three
\* sources have halted on this one step, and only the "ended" event of the
\* fundamental is queued; dispose() has not run yet.
C17_Witness ==
    /\ last.op = "advance"
    /\ \E c \in ChainIds :
        /\ chains[c].ended
        /\ chains[c].playing = {}
        /\ \A s \in Sources : chains[c].stopAt[s] = 0
        /\ voices[chains[c].owner].disposeRuns = 0
        /\ Phase(chains[c].owner) = "Releasing"

\* C18: through the registry every Voice is started exactly once, in the
\* step that constructs it, and stopped at most once, after its start: no
\* Voice is ever left Idle and each has one set of nodes, created with it; a
\* Voice becomes Releasing, or has its halt time set, only by a keyup that
\* finds it registered and Sounding; and no call ever fails on a handle that
\* is undefined or null.
C18_RegistryDrivesVoicesInOrder ==
    /\ [](/\ err = "none"
          /\ Len(chains) = Len(voices)
          /\ \A v \in VoiceIds :
                /\ Phase(v) # "Idle"
                /\ chains[v].owner = v
                /\ voices[v].chain \in {0, v})
    /\ [][IF last'.op = "keydown" /\ last'.res = "absent"
          THEN /\ Len(voices') = Len(voices) + 1
               /\ Len(chains') = Len(chains) + 1
               /\ PhaseOf(HeapNext, Len(voices')) = "Sounding"
          ELSE /\ Len(voices') = Len(voices)
               /\ Len(chains') = Len(chains)]_vars
    /\ [][\A v \in VoiceIds :
            (\/ PhaseOf(HeapNext, v) # Phase(v)
             \/ /\ last'.op # "advance"
                /\ chains'[v].stopAt # chains[v].stopAt) =>
                \/ /\ last'.op = "keyup" /\ last'.res = "present"
                   /\ activeVoices[noteMap[last'.key]] = v
                   /\ Phase(v) = "Sounding"
                   /\ PhaseOf(HeapNext, v) = "Releasing"
                \/ /\ last'.op = "ended" /\ last'.v = v
                   /\ Phase(v) = "Releasing"
                   /\ PhaseOf(HeapNext, v) = "Disposed"
                   /\ chains'[v].stopAt = chains[v].stopAt]_vars

\* A registered Voice has just been stopped, without error, while an earlier
\* Voice is already Disposed.
C18_Witness ==
    /\ last.op = "keyup" /\ last.res = "present"
    /\ err = "none"
    /\ \E v \in VoiceIds, w \in VoiceIds :
        /\ w < v
        /\ Phase(w) = "Disposed"
        /\ Phase(v) = "Releasing"
        /\ chains[v].stopAt["osc"] = release + guard

\* The Voices created for note n that are in phase p.
VoicesOf(n, p) ==
    {v \in VoiceIds : voices[v].frequency = mtof(n) /\ Phase(v) = p}

\* C19: a keydown for a note that has no registry entry but still has
\* Releasing Voices creates a new Voice, Sounding and registered, and leaves
\* the Releasing ones as they are, so that undisposed Voices of one note
\* coexist, at most one of them Sounding; and when an old Voice is disposed of
\* the registry does not change and the Voice registered for the same note
\* keeps its handles, its phase and its nodes, all connected.
C19_RetriggerWhileReleasing ==
    /\ [](\A n \in Notes : Cardinality(VoicesOf(n, "Sounding")) <= 1)
    /\ [][\A n \in Notes :
            (/\ last'.op = "keydown" /\ last'.res = "absent"
             /\ noteMap[last'.key] = n
             /\ VoicesOf(n, "Releasing") # {}) =>
                /\ Len(voices') = Len(voices) + 1
                /\ activeVoices'[n] = Len(voices')
                /\ PhaseOf(HeapNext, Len(voices')) = "Sounding"
                /\ \A w \in VoicesOf(n, "Releasing") :
                    /\ voices'[w] = voices[w]
                    /\ chains'[voices[w].chain] = chains[voices[w].chain]]_vars
    /\ [][\A n \in Notes :
            (/\ last'.op = "ended"
             /\ voices[last'.v].frequency = mtof(n)
             /\ activeVoices[n] # 0) =>
                LET v == activeVoices[n]
                IN /\ v # last'.v
                   /\ activeVoices' = activeVoices
                   /\ voices'[v] = voices[v]
                   /\ chains'[voices[v].chain] = chains[voices[v].chain]
                   /\ chains'[voices[v].chain].connected = Nodes
                   /\ PhaseOf(HeapNext, last'.v) = "Disposed"]_vars

\* A note was struck again while its previous Voice was Releasing, and that
\* previous Voice has now been disposed of: the later Voice is registered,
\* Sounding and fully connected.
C19_Witness ==
    /\ last.op = "ended"
    /\ Phase(last.v) = "Disposed"
    /\ \E n \in Notes :
        /\ mtof(n) = voices[last.v].frequency
        /\ activeVoices[n] > last.v
        /\ Phase(activeVoices[n]) = "Sounding"
        /\ chains[voices[activeVoices[n]].chain].connected = Nodes
        /\ chains[voices[activeVoices[n]].chain].playing = Sources

====
